---- MODULE Spec2Model ----
(***************************************************************************)
(* Receipt processing pipeline and confirmation-time inventory             *)
(* reconciliation of the Auto-Inventory backend.                           *)
(*                                                                         *)
(* The relational store is PostgreSQL behind SQLAlchemy async sessions     *)
(* (database.py): the engine sets no isolation level, so every statement   *)
(* reads the latest committed row (READ COMMITTED), a flushed UPDATE holds *)
(* the row lock until the session commits or rolls back, and sessions are  *)
(* created with autoflush=False and expire_on_commit=False.                *)
(*                                                                         *)
(* Further parts: the Celery request around the pipeline (retries,         *)
(* on_failure, time limits), the retry decorator of the adapters, the      *)
(* product matcher, the Thai text normalizer and the product update of     *)
(* catalog management.                                                     *)
(***************************************************************************)
EXTENDS Integers, Sequences, FiniteSets, TLC

None == "None"

\* ---------------------------------------------------------------- bounds
MaxItems == 2
MaxQty == 2
MaxRows == 3
MaxCatalog == 2
MaxLen == 3

\* ------------------------------------------------------------ the catalog
Products == {"P1", "P2"}
MissingProduct == "PX"
ProductIds == Products \cup {MissingProduct}

Receipts == {"R1", "R2"}
MissingReceipt == "RX"
ReceiptIds == Receipts \cup {MissingReceipt}

Requests == {"req1", "req2"}

PROCESSING == "processing"
PENDING_CONFIRMATION == "pending_confirmation"
CONFIRMED == "confirmed"
FAILED == "failed"
ReceiptStatus == {PROCESSING, PENDING_CONFIRMATION, CONFIRMED, FAILED}

InitialQuantity == [p \in Products |-> IF p = "P1" THEN 5 ELSE 0]

\* products.reorder_point (an integer >= 0, never changed by a confirmation)
ReorderPoint == [p \in Products |-> IF p = "P1" THEN 7 ELSE 2]

\* ------------------------------------------------------------- the inputs
\* ConfirmReceiptItem.quantity is any int: a negative one, zero, positive ones
ItemQuantities == -1..MaxQty

ConfirmReceiptItem == [product_id : ProductIds, quantity : ItemQuantities]

SeqsUpTo(S, n) == UNION {[1..k -> S] : k \in 0..n}

ConfirmItemLists == SeqsUpTo(ConfirmReceiptItem, MaxItems)

\* ---------------------------------------------------------------- state
VARIABLES
    quantity,       \* products.quantity, committed
    status,         \* receipts.status, committed
    raw_text,       \* receipts.raw_text, committed
    extracted_data, \* receipts.extracted_data (the proposal), committed
    error_message,  \* receipts.error_message, committed
    transactions,   \* committed transactions rows with their transaction_items
    sess,           \* one confirm_receipt request and its database session
    run,            \* one run of the receipt pipeline on a worker
    progress,       \* the events the progress sink has received
    task,           \* the Celery request of process_receipt_task
    call,           \* one adapter call under retry_external_service
    lookup,         \* one call of find_matching_product
    norm            \* one use of normalize_thai_text and the variation table

storeVars == <<quantity, status, raw_text, extracted_data, error_message, transactions>>
receiptVars == <<raw_text, extracted_data, error_message>>
pipelineVars == <<run, progress>>
serviceVars == <<task, call, lookup, norm>>
vars == <<quantity, status, raw_text, extracted_data, error_message,
          transactions, sess, run, progress, task, call, lookup, norm>>

\* what a reader of the committed store sees
Snapshot(q, st, txs) == [quantity |-> q, status |-> st, transactions |-> txs]

\* a session that has loaded no product yet
EmptyIdentityMap == [p \in {} |-> 0]

NoSnapshot == Snapshot(EmptyIdentityMap, EmptyIdentityMap, <<>>)

IdleSession ==
    [pc |-> "idle", receipt_id |-> None, items |-> <<>>, idx |-> 0,
     loaded |-> EmptyIdentityMap, flushed |-> FALSE, result |-> None,
     low_stock_products |-> <<>>,
     pre |-> NoSnapshot, post |-> NoSnapshot]

\* products this session has loaded and modified (its dirty rows)
Dirty(s) == DOMAIN s.loaded

\* rows on which another session holds the lock of a flushed UPDATE
LockedByOther(r) ==
    UNION {Dirty(sess[o]) : o \in {x \in Requests \ {r} : sess[x].flushed}}

\* the request ends: the response (or HTTP error) goes back to the caller and
\* whatever the session had not committed is rolled back
Finish(s, res, q, st, txs) ==
    [s EXCEPT !.pc = "done", !.result = res, !.loaded = EmptyIdentityMap,
              !.flushed = FALSE, !.post = Snapshot(q, st, txs)]

\* the transactions row and its transaction_items rows built from the items
NewTransaction(rid, items) ==
    [receipt_id |-> rid,
     total_items |-> Len(items),
     items |-> [i \in 1..Len(items) |->
                   [product_id |-> items[i].product_id,
                    quantity |-> items[i].quantity]]]

IdleRun ==
    [pc |-> "idle", impl |-> None, receipt_id |-> None,
     answer |-> [kind |-> None, rows |-> <<>>],
     extracted_items |-> <<>>, raw_ocr_content |-> None, idx |-> 0,
     matched_items |-> <<>>, unmatched_items |-> <<>>, validated_items |-> <<>>,
     trace |-> <<>>, exc |-> None, result |-> None,
     pre |-> [status |-> None, extracted_data |-> None, raw_text |-> None,
              error_message |-> None]]

\* no Celery request has been sent
IdleTask == [state |-> "none", receipt_id |-> None, retries |-> 0, on_failure |-> None]

\* a Python object as the retry predicate sees it: its class and, for an
\* HTTP status error, the status code of the response
PyObject(class, code) == [class |-> class, status_code |-> code]

NoException == PyObject(None, 0)

\* no adapter call is under way
IdleCall ==
    [pc |-> "idle", attempts |-> <<>>, error |-> NoException, result |-> None,
     checked |-> NoException, verdict |-> FALSE]

\* find_matching_product has not been called
IdleLookup ==
    [pc |-> "idle", catalog |-> <<>>, embedding |-> None, row |-> 0, similarity |-> 0,
     vector |-> None, result |-> 0]

\* a string is the sequence of its characters; a Thai syllable group that the
\* variation table treats as a unit stands as one element: "makhuea" and
\* "thet" spell the word for tomato, "nom" is milk and "sot" fresh.

\* THAI_WORD_VARIATIONS as built in, in the order of the dict: the entries
\* whose characters occur in the modelled alphabet
BuiltinVariations ==
    <<[variation |-> <<"makhuea", "thet">>, standard |-> <<"makhuea", "thet">>],
      [variation |-> <<"makhuea">>, standard |-> <<"makhuea", "thet">>],
      [variation |-> <<"nom", "sot">>, standard |-> <<"nom">>]>>

\* normalize_thai_text has not been called
IdleNorm ==
    [pc |-> "idle", table |-> BuiltinVariations, text |-> <<>>, once |-> <<>>,
     twice |-> <<>>]

IdleServices ==
    /\ task = IdleTask
    /\ call = IdleCall
    /\ lookup = IdleLookup
    /\ norm = IdleNorm

\* the receipts of the confirmation workflow: R1 waits for confirmation, R2 is
\* in any of the four states; a Confirmed R2 was reconciled earlier with one
\* item (one unit of P2)
EarlierItems == <<[product_id |-> "P2", quantity |-> 1]>>

InitStore ==
    /\ status \in [Receipts -> ReceiptStatus]
    /\ status["R1"] = PENDING_CONFIRMATION
    /\ quantity = IF status["R2"] = CONFIRMED
                  THEN [InitialQuantity EXCEPT !["P2"] = @ + 1]
                  ELSE InitialQuantity
    /\ transactions = IF status["R2"] = CONFIRMED
                      THEN <<NewTransaction("R2", EarlierItems)>>
                      ELSE <<>>
    /\ raw_text = [rc \in Receipts |-> None]
    /\ extracted_data = [rc \in Receipts |-> None]
    /\ error_message = [rc \in Receipts |-> None]

Init ==
    /\ InitStore
    /\ sess = [r \in Requests |-> IdleSession]
    /\ run = IdleRun
    /\ progress = <<>>
    /\ IdleServices

\* ------------------------------------------------------- confirm_receipt
\* a status check that also lets a Failed receipt through
StatusAllowsConfirmOrFailed(s) == s \in {PENDING_CONFIRMATION, FAILED}

\* the status a receipt must have for the confirmation to go on
StatusAllowsConfirm(s) == s = PENDING_CONFIRMATION

\* a conversion that takes any quantity
ValidatedItemAcceptsAny(v) == v \in Int

\* ValidatedItem.quantity: Field(gt=0) and validate_quantity
ValidatedItemAccepts(v) == v > 0

\* the conversion of the request items to ValidatedItems raises pydantic's
\* ValidationError (a ValueError) at the first item it does not accept
ConversionRaises(items) ==
    \E i \in 1..Len(items) : ~ValidatedItemAccepts(items[i].quantity)

\* POST /api/receipts/confirm arrives; the receipt is selected and checked,
\* and the items are converted
ConfirmGetReceipt(r) ==
    /\ sess[r].pc = "idle"
    /\ \E rid \in ReceiptIds, items \in ConfirmItemLists :
         LET s0 == [sess[r] EXCEPT !.receipt_id = rid, !.items = items,
                                   !.pre = Snapshot(quantity, status, transactions)]
         IN  sess' = [sess EXCEPT ![r] =
                 IF rid \notin Receipts
                 THEN Finish(s0, "http404", quantity, status, transactions)
                 ELSE IF ~StatusAllowsConfirm(status[rid])
                 THEN Finish(s0, "http400_status", quantity, status, transactions)
                 ELSE IF ConversionRaises(items)
                 THEN Finish(s0, "http400_value", quantity, status, transactions)
                 ELSE [s0 EXCEPT !.pc = IF items = <<>> THEN "create_transaction"
                                        ELSE "update_inventory",
                                 !.idx = 1]]
    /\ UNCHANGED <<quantity, status, transactions, receiptVars, pipelineVars, serviceVars>>

\* a select that overwrites the loaded object with the committed row
AddToLoadedFresh(loaded, q, p, n) ==
    [x \in DOMAIN loaded \cup {p} |-> IF x = p THEN q[p] + n ELSE loaded[x]]

\* select(Product): the identity map keeps an object already loaded, a new
\* one is read from the committed row; then product.quantity += n
AddToLoaded(loaded, q, p, n) ==
    [x \in DOMAIN loaded \cup {p} |->
        IF x = p
        THEN (IF p \in DOMAIN loaded THEN loaded[p] ELSE q[p]) + n
        ELSE loaded[x]]

\* the check made in the loop of update_inventory right after the item's
\* addition: the product is appended with the quantity it has at that moment
LowStockCheck(low, loaded, p) ==
    IF loaded[p] < ReorderPoint[p]
    THEN Append(low, [product_id |-> p, quantity |-> loaded[p],
                      reorder_point |-> ReorderPoint[p]])
    ELSE low

\* the addition and the low-stock check of one item
UpdateItem(s, q, p, n) ==
    LET loaded == AddToLoaded(s.loaded, q, p, n)
    IN  [s EXCEPT !.loaded = loaded,
                  !.low_stock_products = LowStockCheck(@, loaded, p),
                  !.idx = @ + 1]

\* a loop that skips an item whose product is not found instead of raising
UpdateInventoryItemSkipMissing(r) ==
    LET s == sess[r]
        it == s.items[s.idx]
        p == it.product_id
    IN  /\ s.pc = "update_inventory"
        /\ s.idx <= Len(s.items)
        /\ sess' = [sess EXCEPT ![r] =
               IF p \notin Products
               THEN [s EXCEPT !.idx = @ + 1]
               ELSE UpdateItem(s, quantity, p, it.quantity)]
        /\ UNCHANGED <<quantity, status, transactions, receiptVars, pipelineVars, serviceVars>>

\* one turn of the loop of update_inventory: select the product, add the
\* item's quantity to the loaded object; a missing product raises ValueError,
\* which confirm_receipt answers with a rollback and HTTP 400
UpdateInventoryItem(r) ==
    LET s == sess[r]
        it == s.items[s.idx]
        p == it.product_id
    IN  /\ s.pc = "update_inventory"
        /\ s.idx <= Len(s.items)
        /\ sess' = [sess EXCEPT ![r] =
               IF p \notin Products
               THEN Finish(s, "http400_value", quantity, status, transactions)
               ELSE UpdateItem(s, quantity, p, it.quantity)]
        /\ UNCHANGED <<quantity, status, transactions, receiptVars, pipelineVars, serviceVars>>

\* db.flush() at the end of update_inventory: the UPDATEs take the row locks
UpdateInventoryFlush(r) ==
    LET s == sess[r]
    IN  /\ s.pc = "update_inventory"
        /\ s.idx > Len(s.items)
        /\ Dirty(s) \cap LockedByOther(r) = {}
        /\ sess' = [sess EXCEPT ![r] = [s EXCEPT !.flushed = TRUE,
                                                 !.pc = "create_transaction"]]
        /\ UNCHANGED <<quantity, status, transactions, receiptVars, pipelineVars, serviceVars>>

\* a create_transaction without the check for an empty items list
CreateTransactionNoEmptyCheck(r) ==
    /\ sess[r].pc = "create_transaction"
    /\ sess' = [sess EXCEPT ![r].pc = "tx_commit"]
    /\ UNCHANGED <<quantity, status, transactions, receiptVars, pipelineVars, serviceVars>>

\* create_transaction up to the flush of the new Transaction: an empty items
\* list raises ValueError (rollback, HTTP 400)
CreateTransaction(r) ==
    LET s == sess[r]
    IN  /\ s.pc = "create_transaction"
        /\ sess' = [sess EXCEPT ![r] =
               IF s.items = <<>>
               THEN Finish(s, "http400_value", quantity, status, transactions)
               ELSE [s EXCEPT !.pc = "tx_commit"]]
        /\ UNCHANGED <<quantity, status, transactions, receiptVars, pipelineVars, serviceVars>>

\* the product quantities the commit of session s publishes
CommittedQuantity(s, q) ==
    [p \in Products |-> IF p \in DOMAIN s.loaded THEN s.loaded[p] ELSE q[p]]

\* db.commit() inside create_transaction: the flushed product UPDATEs, the
\* Transaction and its TransactionItems become visible together
CreateTransactionCommit(r) ==
    LET s == sess[r]
    IN  /\ s.pc = "tx_commit"
        /\ quantity' = CommittedQuantity(s, quantity)
        /\ transactions' = Append(transactions, NewTransaction(s.receipt_id, s.items))
        /\ sess' = [sess EXCEPT ![r] = [s EXCEPT !.pc = "tx_refresh",
                                                 !.flushed = FALSE]]
        /\ UNCHANGED <<status, receiptVars, pipelineVars, serviceVars>>

\* db.refresh(transaction) and db.refresh(item) after the commit
CreateTransactionRefresh(r) ==
    /\ sess[r].pc = "tx_refresh"
    /\ sess' = [sess EXCEPT ![r].pc = "set_confirmed"]
    /\ UNCHANGED <<quantity, status, transactions, receiptVars, pipelineVars, serviceVars>>

\* receipt.status = CONFIRMED; db.commit()
ConfirmSetStatus(r) ==
    LET s == sess[r]
        st == [status EXCEPT ![s.receipt_id] = CONFIRMED]
    IN  /\ s.pc = "set_confirmed"
        /\ status' = st
        /\ sess' = [sess EXCEPT ![r] = Finish(s, "ok", quantity, st, transactions)]
        /\ UNCHANGED <<quantity, transactions, receiptVars, pipelineVars, serviceVars>>

\* a database call raises (connection lost, statement failed): the handlers
\* of create_transaction and confirm_receipt roll the session back and the
\* caller gets HTTP 500
DbSteps == {"update_inventory", "create_transaction", "tx_commit",
            "tx_refresh", "set_confirmed"}

DbError(r) ==
    /\ sess[r].pc \in DbSteps
    /\ sess' = [sess EXCEPT ![r] =
           Finish(sess[r], "http500", quantity, status, transactions)]
    /\ UNCHANGED <<quantity, status, transactions, receiptVars, pipelineVars, serviceVars>>

ConfirmStep(r) ==
    \/ ConfirmGetReceipt(r)
    \/ UpdateInventoryItem(r)
    \/ UpdateInventoryFlush(r)
    \/ CreateTransaction(r)
    \/ CreateTransactionCommit(r)
    \/ CreateTransactionRefresh(r)
    \/ ConfirmSetStatus(r)

\* confirmation requests served concurrently by a healthy database
Next == \E r \in Requests : ConfirmStep(r)

Spec == Init /\ [][Next]_vars

\* one confirmation request served alone, by a database whose calls may fail
NextOne == ConfirmStep("req1") \/ DbError("req1")

SpecOne == Init /\ [][NextOne]_vars

\* ------------------------------------------------------- catalog management
\* the body of PUT /api/products/{product_id}: the fields that are not None,
\* and the quantity if it is one of them
ProductUpdate == [fields : SUBSET {"name", "quantity"}, quantity : 0..MaxQty]

\* rows on which a session holds the lock of a flushed UPDATE
LockedRows == UNION {Dirty(sess[o]) : o \in {x \in Requests : sess[x].flushed}}

\* PUT /api/products/{product_id}, update_product and the commit of its
\* router: the product is selected (a missing one gives 404), every field
\* that is not None is assigned, a changed name gets a new embedding, and the
\* UPDATE is flushed and committed
UpdateProduct(r) ==
    /\ sess[r].pc = "idle"
    /\ \E product_id \in ProductIds, product_data \in ProductUpdate :
         LET s0 == [sess[r] EXCEPT !.pre = Snapshot(quantity, status, transactions)]
             q == IF "quantity" \in product_data.fields
                  THEN [quantity EXCEPT ![product_id] = product_data.quantity]
                  ELSE quantity
         IN  IF product_id \notin Products
             THEN /\ sess' = [sess EXCEPT ![r] =
                                 Finish(s0, "http404", quantity, status, transactions)]
                  /\ UNCHANGED quantity
             ELSE /\ product_data.fields # {} => product_id \notin LockedRows
                  /\ quantity' = q
                  /\ sess' = [sess EXCEPT ![r] = Finish(s0, "ok", q, status, transactions)]
    /\ UNCHANGED <<status, transactions, receiptVars, pipelineVars, serviceVars>>

NextCatalog ==
    \/ ConfirmStep("req1")
    \/ DbError("req1")
    \/ UpdateProduct("req2")

\* catalog management next to one confirmation request
SpecCatalog == Init /\ [][NextCatalog]_vars

\* ------------------------------------------------------ receipt pipeline
\* the two orchestrators: the Celery task body and the shared pipeline function
TASK == "_process_receipt_async"
PIPELINE == "run_receipt_pipeline"
Implementations == {TASK, PIPELINE}

\* the content of the vision model's answer, kept as the raw OCR text
RawContent == "raw_ocr_output"

\* what the vision model answers: a JSON list of rows (a row with an empty
\* name or quantity is "blank"), a list with a row that is no valid item, or
\* nothing usable (HTTP error, transport error, undecodable JSON)
ExtractionAnswers ==
    [kind : {"rows"}, rows : SeqsUpTo({"item", "blank"}, MaxRows)]
        \cup [kind : {"invalid_row", "unreadable"}, rows : {<<>>}]

\* an error message: its text and the number of times it embeds the raw OCR
\* text after the marker "ข้อมูลที่ OCR ได้:"
ErrorMessage(text, ocr) == [text |-> text, ocr |-> ocr]

RECURSIVE KeptRows(_, _)
\* the rows the adapter keeps, each named by its position in the answer
KeptRows(rows, i) ==
    IF i > Len(rows) THEN <<>>
    ELSE (IF rows[i] = "item" THEN <<i>> ELSE <<>>) \o KeptRows(rows, i + 1)

\* OpenRouterService.extract_items_from_image
ExtractItemsFromImage(answer) ==
    IF answer.kind = "unreadable"
    THEN [ok |-> FALSE, error |-> ErrorMessage("extraction_failed", 0)]
    ELSE IF answer.kind = "invalid_row"
    THEN [ok |-> FALSE, error |-> ErrorMessage("invalid_items", 1)]
    ELSE IF KeptRows(answer.rows, 1) = <<>>
    THEN [ok |-> FALSE, error |-> ErrorMessage("no_items_in_receipt", 1)]
    ELSE [ok |-> TRUE, items |-> KeptRows(answer.rows, 1), raw |-> RawContent]

\* what the validation LLM answers for one item: a JSON object with a
\* product_id and a quantity, or nothing that parses and validates
LlmOutcomes ==
    [ok : {TRUE}, quantity : 1..MaxQty, product_id : Products]
        \cup [ok : {FALSE}, quantity : {0}, product_id : {None}]

\* the parameters of validate_and_convert after self
ValidateAndConvertParams == <<"matched_item", "original_text">>

\* the positional arguments each orchestrator passes to validate_and_convert
ValidateAndConvertArgs(impl) ==
    IF impl = PIPELINE
    THEN <<"matched_product", "extracted_item.original_text", "extracted_item.quantity">>
    ELSE <<"matched_product", "extracted_item.original_text">>

\* the call of validate_and_convert: a call that does not bind raises TypeError
ValidateCall(impl, llm) ==
    IF Len(ValidateAndConvertArgs(impl)) # Len(ValidateAndConvertParams)
    THEN [ok |-> FALSE, quantity |-> 0, product_id |-> None]
    ELSE llm

\* a raise inside the try block: the handler runs next
Raise(rn, msg) == [rn EXCEPT !.pc = "failed", !.exc = msg]

\* the raw OCR text is appended to a message that is raised after extraction
WithRaw(text, raw) == ErrorMessage(text, IF raw # None THEN 1 ELSE 0)

\* the receipt's row as the orchestrator finds it
ReceiptFields(rid) ==
    [status |-> status[rid], extracted_data |-> extracted_data[rid],
     raw_text |-> raw_text[rid], error_message |-> error_message[rid]]

\* the orchestrator loads the receipt, sets it to Processing, commits and
\* reports 33% before it calls the extraction adapter
StartRun(impl, rid) ==
    /\ run' = [run EXCEPT !.pc = "extracting", !.impl = impl,
                           !.receipt_id = rid,
                           !.pre = ReceiptFields(rid)]
    /\ status' = [status EXCEPT ![rid] = PROCESSING]
    /\ progress' = Append(progress, 33)

\* the orchestrator is invoked; a receipt that does not exist raises before
\* the try block
ProcessStart ==
    /\ run.pc = "idle"
    /\ \E impl \in Implementations, rid \in ReceiptIds :
         IF rid \notin Receipts
         THEN /\ run' = [run EXCEPT !.pc = "done", !.impl = impl, !.receipt_id = rid,
                                    !.exc = ErrorMessage("receipt_not_found", 0),
                                    !.result = "raised"]
              /\ UNCHANGED <<status, progress>>
         ELSE StartRun(impl, rid)
    /\ UNCHANGED <<quantity, transactions, sess, receiptVars, serviceVars>>

\* extract_items_from_image returns or raises
ExtractReturn ==
    /\ run.pc = "extracting"
    /\ \E answer \in ExtractionAnswers :
         LET res == ExtractItemsFromImage(answer)
         IN  run' = IF res.ok
                    THEN [run EXCEPT !.pc = "save_raw_text", !.answer = answer,
                                     !.extracted_items = res.items,
                                     !.raw_ocr_content = res.raw]
                    ELSE [Raise(run, res.error) EXCEPT !.answer = answer]
    /\ UNCHANGED <<storeVars, sess, progress, serviceVars>>

\* receipt.raw_text = raw_ocr_content; commit; then the check for no items
\* and the 66% report
SaveRawText ==
    /\ run.pc = "save_raw_text"
    /\ raw_text' = [raw_text EXCEPT ![run.receipt_id] = run.raw_ocr_content]
    /\ IF run.extracted_items = <<>>
       THEN /\ run' = Raise(run, ErrorMessage("no_items_extracted", 1))
            /\ UNCHANGED progress
       ELSE /\ run' = [run EXCEPT !.pc = "matching", !.idx = 1]
            /\ progress' = Append(progress, 66)
    /\ UNCHANGED <<quantity, status, extracted_data, error_message, transactions, sess, serviceVars>>

\* one turn of the matching loop: find_matching_product returns a product or None
FindMatchingProduct ==
    /\ run.pc = "matching"
    /\ run.idx <= Len(run.extracted_items)
    /\ \E m \in Products \cup {None} :
         LET item == run.extracted_items[run.idx]
             entry == [item |-> item, match |-> m, attempted |-> FALSE, valid |-> None,
                       adapter |-> None, llm_product_id |-> None]
         IN  run' = [run EXCEPT
                 !.matched_items = IF m # None THEN Append(@, <<item, m>>) ELSE @,
                 !.unmatched_items = IF m = None THEN Append(@, item) ELSE @,
                 !.trace = Append(@, entry),
                 !.idx = @ + 1]
    /\ UNCHANGED <<storeVars, sess, progress, serviceVars>>

\* a matching stage that gives up as soon as one item has no match
MatchingDoneAllOrNothing ==
    /\ run.pc = "matching"
    /\ run.idx > Len(run.extracted_items)
    /\ IF run.matched_items = <<>> \/ run.unmatched_items # <<>>
       THEN /\ run' = Raise(run, WithRaw("no_products_matched", run.raw_ocr_content))
            /\ UNCHANGED progress
       ELSE /\ run' = [run EXCEPT !.pc = "validating", !.idx = 1]
            /\ progress' = Append(progress, 100)
    /\ UNCHANGED <<storeVars, sess, serviceVars>>

\* after the matching loop: no matched item raises, else 100% is reported
MatchingDone ==
    /\ run.pc = "matching"
    /\ run.idx > Len(run.extracted_items)
    /\ IF run.matched_items = <<>>
       THEN /\ run' = Raise(run, WithRaw("no_products_matched", run.raw_ocr_content))
            /\ UNCHANGED progress
       ELSE /\ run' = [run EXCEPT !.pc = "validating", !.idx = 1]
            /\ progress' = Append(progress, 100)
    /\ UNCHANGED <<storeVars, sess, serviceVars>>

\* the position of an extracted item in the run's trace
TraceIndex(rn, item) == CHOOSE k \in 1..Len(rn.trace) : rn.trace[k].item = item

\* a validation that takes the product_id from the LLM's answer
ValidatedProductIdFromAnswer(matched_product, llm) == llm.product_id

\* ValidatedItem(product_id=matched_item.product_id, ...)
ValidatedProductId(matched_product, llm) == matched_product

\* a handler that lets the item's error end the run
ValidationErrorAborts(rn) == Raise(rn, ErrorMessage("validation_error", 0))

\* except Exception: logger.error(...); continue -- the loop goes on
ValidationErrorSkips(rn) == [rn EXCEPT !.pc = "validating"]

\* one turn of the validation loop: a failure is logged and the item skipped
ValidateAndConvert ==
    /\ run.pc = "validating"
    /\ run.idx <= Len(run.matched_items)
    /\ \E llm \in LlmOutcomes :
         LET item == run.matched_items[run.idx][1]
             matched_product == run.matched_items[run.idx][2]
             out == ValidateCall(run.impl, llm)
             k == TraceIndex(run, item)
             turn == [run EXCEPT
                 !.validated_items =
                     IF out.ok
                     THEN Append(@, [product_id |-> ValidatedProductId(matched_product, out),
                                     quantity |-> out.quantity,
                                     original_text |-> item])
                     ELSE @,
                 !.trace[k].attempted = TRUE,
                 !.trace[k].valid = IF out.ok THEN "ok" ELSE "failed",
                 !.trace[k].adapter = IF llm.ok THEN "returned" ELSE "raised",
                 !.trace[k].llm_product_id = out.product_id,
                 !.idx = @ + 1]
         IN  run' = IF out.ok THEN turn ELSE ValidationErrorSkips(turn)
    /\ UNCHANGED <<storeVars, sess, progress, serviceVars>>

\* the proposal stored in receipts.extracted_data
ResultData(rn) ==
    [items |-> rn.validated_items,
     total_items |-> Len(rn.validated_items),
     unmatched_items |-> rn.unmatched_items]

\* a validation stage that stores the proposal whatever was validated
ValidationDoneUnchecked ==
    /\ run.pc = "validating"
    /\ run.idx > Len(run.matched_items)
    /\ run' = [run EXCEPT !.pc = "done", !.result = "returned"]
    /\ status' = [status EXCEPT ![run.receipt_id] = PENDING_CONFIRMATION]
    /\ extracted_data' = [extracted_data EXCEPT ![run.receipt_id] = ResultData(run)]
    /\ error_message' = [error_message EXCEPT ![run.receipt_id] = None]
    /\ UNCHANGED <<quantity, raw_text, transactions, sess, progress, serviceVars>>

\* after the validation loop: no validated item raises, else the proposal is
\* stored and the receipt set to PendingConfirmation
ValidationDone ==
    /\ run.pc = "validating"
    /\ run.idx > Len(run.matched_items)
    /\ IF run.validated_items = <<>>
       THEN /\ run' = Raise(run, WithRaw("no_items_validated", run.raw_ocr_content))
            /\ UNCHANGED <<status, extracted_data, error_message>>
       ELSE /\ run' = [run EXCEPT !.pc = "done", !.result = "returned"]
            /\ status' = [status EXCEPT ![run.receipt_id] = PENDING_CONFIRMATION]
            /\ extracted_data' = [extracted_data EXCEPT ![run.receipt_id] = ResultData(run)]
            /\ error_message' = [error_message EXCEPT ![run.receipt_id] = None]
    /\ UNCHANGED <<quantity, raw_text, transactions, sess, progress, serviceVars>>

\* a handler that appends the raw OCR text without looking for the marker
FailureMessageAlwaysAppends(exc, raw) ==
    IF raw # None THEN ErrorMessage(exc.text, exc.ocr + 1) ELSE exc

\* the message stored on failure: the raw OCR text is appended when the run
\* has it and the message does not embed it yet
FailureMessage(exc, raw) ==
    IF raw # None /\ exc.ocr = 0 THEN ErrorMessage(exc.text, 1) ELSE exc

\* the except block (_mark_failed): the receipt is set to Failed with the
\* message, and the exception is raised again
MarkFailed ==
    /\ run.pc = "failed"
    /\ status' = [status EXCEPT ![run.receipt_id] = FAILED]
    /\ error_message' = [error_message EXCEPT ![run.receipt_id] =
                             FailureMessage(run.exc, run.raw_ocr_content)]
    /\ run' = [run EXCEPT !.pc = "done", !.result = "raised"]
    /\ UNCHANGED <<quantity, raw_text, extracted_data, transactions, sess, progress, serviceVars>>

\* receipts as upload_receipt creates them
InitPipeline ==
    /\ quantity = InitialQuantity
    /\ status = [rc \in Receipts |-> PROCESSING]
    /\ raw_text = [rc \in Receipts |-> None]
    /\ extracted_data = [rc \in Receipts |-> None]
    /\ error_message = [rc \in Receipts |-> None]
    /\ transactions = <<>>
    /\ sess = [r \in Requests |-> IdleSession]
    /\ run = IdleRun
    /\ progress = <<>>
    /\ IdleServices

NextPipeline ==
    \/ ProcessStart
    \/ ExtractReturn
    \/ SaveRawText
    \/ FindMatchingProduct
    \/ MatchingDone
    \/ ValidateAndConvert
    \/ ValidationDone
    \/ MarkFailed

SpecPipeline == InitPipeline /\ [][NextPipeline]_vars

\* ------------------------------------------------------------ Celery task
\* process_receipt_task: max_retries=2, autoretry_for=(Exception,)
max_retries == 2

\* a worker takes the request from the queue and runs the task body
TaskStart ==
    /\ task.state = "queued"
    /\ run.pc = "idle"
    /\ StartRun(TASK, task.receipt_id)
    /\ task' = [task EXCEPT !.state = "started"]
    /\ UNCHANGED <<quantity, transactions, sess, receiptVars, call, lookup, norm>>

\* the places of the try block where the session commits
CommitSteps(rn) ==
    \/ rn.pc = "save_raw_text"
    \/ rn.pc = "validating" /\ rn.idx > Len(rn.matched_items) /\ rn.validated_items # <<>>

\* a commit inside the try block raises: the except block runs next
CommitFails ==
    /\ CommitSteps(run)
    /\ run' = Raise(run, ErrorMessage("database_error", 0))
    /\ UNCHANGED <<storeVars, sess, progress, serviceVars>>

\* the places where the task body waits inside the try block
TrySteps == {"extracting", "save_raw_text", "matching", "validating"}

\* task_soft_time_limit: SoftTimeLimitExceeded is raised inside the try block
SoftTimeLimit ==
    /\ run.pc \in TrySteps
    /\ run' = Raise(run, ErrorMessage("soft_time_limit", 0))
    /\ UNCHANGED <<storeVars, sess, progress, serviceVars>>

\* task_time_limit: the worker process is killed, no handler of the body runs
HardTimeLimit ==
    /\ task.state = "started"
    /\ run.pc \in TrySteps \cup {"failed"}
    /\ run' = [run EXCEPT !.pc = "killed", !.result = "killed"]
    /\ task' = [task EXCEPT !.state = "killed"]
    /\ UNCHANGED <<storeVars, sess, progress, call, lookup, norm>>

\* the write of the Failed status in the except block raises: the inner
\* handler logs it and rolls back, and the exception is raised again
MarkFailedWriteFails ==
    /\ run.pc = "failed"
    /\ run' = [run EXCEPT !.pc = "done", !.result = "raised"]
    /\ UNCHANGED <<storeVars, sess, progress, serviceVars>>

\* the task body returned its result
TaskSucceeds ==
    /\ task.state = "started"
    /\ run.pc = "done" /\ run.result = "returned"
    /\ task' = [task EXCEPT !.state = "SUCCESS"]
    /\ UNCHANGED <<storeVars, sess, pipelineVars, call, lookup, norm>>

\* the task body raised and retries are left: the request is queued again,
\* and its state in the result backend (the PROGRESS meta) becomes RETRY
TaskAutoretry ==
    /\ task.state = "started"
    /\ run.pc = "done" /\ run.result = "raised"
    /\ task.retries < max_retries
    /\ task' = [task EXCEPT !.state = "queued", !.retries = @ + 1]
    /\ run' = IdleRun
    /\ progress' = <<>>
    /\ UNCHANGED <<storeVars, sess, call, lookup, norm>>

\* the request has failed for good: the body raised with no retry left, or
\* the process was killed
TaskFailed ==
    \/ task.state = "started" /\ run.pc = "done" /\ run.result = "raised"
           /\ task.retries >= max_retries
    \/ task.state = "killed"

\* on_failure: _update_receipt_status sets the receipt to Failed with str(exc)
OnFailure ==
    /\ TaskFailed
    /\ status' = [status EXCEPT ![task.receipt_id] = FAILED]
    /\ error_message' = [error_message EXCEPT ![task.receipt_id] =
           IF run.result = "killed" THEN ErrorMessage("time_limit_exceeded", 0)
           ELSE FailureMessage(run.exc, run.raw_ocr_content)]
    /\ task' = [task EXCEPT !.state = "FAILURE", !.on_failure = "written"]
    /\ UNCHANGED <<quantity, raw_text, extracted_data, transactions, sess,
                   pipelineVars, call, lookup, norm>>

\* on_failure when the write raises: _update_receipt_status logs it and rolls back
OnFailureWriteFails ==
    /\ TaskFailed
    /\ task' = [task EXCEPT !.state = "FAILURE", !.on_failure = "write_failed"]
    /\ UNCHANGED <<storeVars, sess, pipelineVars, call, lookup, norm>>

\* the killed process leaves the request failed without on_failure being run
TimeLimitExceeded ==
    /\ task.state = "killed"
    /\ task' = [task EXCEPT !.state = "FAILURE", !.on_failure = "not_called"]
    /\ UNCHANGED <<storeVars, sess, pipelineVars, call, lookup, norm>>

\* upload_receipt has created the receipts and queued the task for the first
InitCelery ==
    /\ quantity = InitialQuantity
    /\ status = [rc \in Receipts |-> PROCESSING]
    /\ raw_text = [rc \in Receipts |-> None]
    /\ extracted_data = [rc \in Receipts |-> None]
    /\ error_message = [rc \in Receipts |-> None]
    /\ transactions = <<>>
    /\ sess = [r \in Requests |-> IdleSession]
    /\ run = IdleRun
    /\ progress = <<>>
    /\ task = [IdleTask EXCEPT !.state = "queued", !.receipt_id = "R1"]
    /\ call = IdleCall
    /\ lookup = IdleLookup
    /\ norm = IdleNorm

NextCelery ==
    \/ TaskStart
    \/ ExtractReturn
    \/ SaveRawText
    \/ FindMatchingProduct
    \/ MatchingDone
    \/ ValidateAndConvert
    \/ ValidationDone
    \/ MarkFailed
    \/ CommitFails
    \/ SoftTimeLimit
    \/ HardTimeLimit
    \/ MarkFailedWriteFails
    \/ TaskSucceeds
    \/ TaskAutoretry
    \/ OnFailure
    \/ OnFailureWriteFails
    \/ TimeLimitExceeded

\* every behaviour is finite: at most max_retries + 1 executions of the task
\* body, then SUCCESS or FAILURE, after which no step of the task remains
SpecCelery == InitCelery /\ [][NextCelery]_vars

\* the last execution of the request: the two executions before it failed in
\* the extraction adapter, which left the receipt Failed with that message,
\* and the request is queued for its last retry
InitLastExecution ==
    /\ quantity = InitialQuantity
    /\ status = [rc \in Receipts |-> IF rc = "R1" THEN FAILED ELSE PROCESSING]
    /\ raw_text = [rc \in Receipts |-> None]
    /\ extracted_data = [rc \in Receipts |-> None]
    /\ error_message = [rc \in Receipts |->
                           IF rc = "R1" THEN ErrorMessage("extraction_failed", 0) ELSE None]
    /\ transactions = <<>>
    /\ sess = [r \in Requests |-> IdleSession]
    /\ run = IdleRun
    /\ progress = <<>>
    /\ task = [IdleTask EXCEPT !.state = "queued", !.receipt_id = "R1",
                               !.retries = max_retries]
    /\ call = IdleCall
    /\ lookup = IdleLookup
    /\ norm = IdleNorm

NextLastExecution ==
    \/ TaskStart
    \/ ExtractReturn
    \/ SaveRawText
    \/ FindMatchingProduct
    \/ MatchingDone
    \/ ValidateAndConvert
    \/ ValidationDone
    \/ MarkFailed
    \/ CommitFails
    \/ SoftTimeLimit
    \/ HardTimeLimit
    \/ MarkFailedWriteFails
    \/ TaskSucceeds
    \/ OnFailure
    \/ OnFailureWriteFails
    \/ TimeLimitExceeded

SpecLastExecution == InitLastExecution /\ [][NextLastExecution]_vars

\* ---------------------------------------------------- duplicate delivery
\* the proposal an earlier run stored for a receipt
StoredProposal ==
    [items |-> <<[product_id |-> "P2", quantity |-> 1, original_text |-> 1]>>,
     total_items |-> 1,
     unmatched_items |-> <<>>]

\* the queue delivers run(receipt_id) again: R1 has been processed already
\* (it is PendingConfirmation, or Confirmed with its Transaction), R2 has not
\* been processed or has failed
InitRedelivery ==
    /\ status \in [Receipts -> ReceiptStatus]
    /\ status["R1"] \in {PENDING_CONFIRMATION, CONFIRMED}
    /\ status["R2"] \in {PROCESSING, FAILED}
    /\ quantity = IF status["R1"] = CONFIRMED
                  THEN [InitialQuantity EXCEPT !["P2"] = @ + 1]
                  ELSE InitialQuantity
    /\ transactions = IF status["R1"] = CONFIRMED
                      THEN <<NewTransaction("R1", EarlierItems)>>
                      ELSE <<>>
    /\ raw_text = [rc \in Receipts |-> IF rc = "R1" THEN RawContent ELSE None]
    /\ extracted_data = [rc \in Receipts |-> IF rc = "R1" THEN StoredProposal ELSE None]
    /\ error_message = [rc \in Receipts |-> None]
    /\ sess = [r \in Requests |-> IdleSession]
    /\ run = IdleRun
    /\ progress = <<>>
    /\ IdleServices

SpecRedelivery == InitRedelivery /\ [][NextPipeline]_vars

\* --------------------------------------------------- retry_external_service
\* @retry_external_service(max_attempts=3) on the three adapter methods
max_attempts == 3

\* the classes of httpx, of exceptions.py and of tenacity that matter here,
\* each with the classes it is an instance of
Mro ==
    [c \in {"HTTPError", "HTTPStatusError", "TimeoutException", "ReadTimeout",
            "ConnectError", "ExternalServiceError", "ValueError", "RetryCallState"} |->
        CASE c = "HTTPError" -> {"HTTPError"}
          [] c = "HTTPStatusError" -> {"HTTPStatusError", "HTTPError"}
          [] c = "TimeoutException" ->
                {"TimeoutException", "TransportError", "RequestError", "HTTPError"}
          [] c = "ReadTimeout" ->
                {"ReadTimeout", "TimeoutException", "TransportError", "RequestError",
                 "HTTPError"}
          [] c = "ConnectError" ->
                {"ConnectError", "NetworkError", "TransportError", "RequestError",
                 "HTTPError"}
          [] c = "ExternalServiceError" -> {"ExternalServiceError", "AppException"}
          [] c = "ValueError" -> {"ValueError"}
          [] c = "RetryCallState" -> {"RetryCallState"}]

IsInstance(obj, classes) == Mro[obj.class] \cap classes # {}

\* is_retryable_error
IsRetryableError(exception) ==
    IF IsInstance(exception, {"HTTPError", "TimeoutException", "ConnectError",
                              "ReadTimeout"})
    THEN TRUE
    ELSE IF IsInstance(exception, {"HTTPStatusError"})
    THEN exception.status_code \in {429, 500, 502, 503, 504}
    ELSE FALSE

StatusCodes == {400, 401, 404, 429, 500, 502, 503, 504}

\* how one execution of an adapter method goes: the API key is missing, the
\* request fails in transport, the service answers with an error status,
\* with a body that does not parse, or with a usable body
AdapterOutcomes ==
    [class : {"not_configured", "ConnectError", "ReadTimeout", "malformed"},
     status_code : {0}]
        \cup [class : {"HTTPStatusError"}, status_code : StatusCodes]
        \cup [class : {"Response"}, status_code : {200}]

\* what the adapter method raises: the ValueError of the missing key is
\* raised before the try block, everything else leaves as ExternalServiceError
AdapterRaises(outcome) ==
    IF outcome.class = "not_configured"
    THEN PyObject("ValueError", 0)
    ELSE PyObject("ExternalServiceError", 503)

\* the orchestrator (or the matcher) calls an adapter method
CallAdapter ==
    /\ call.pc = "idle"
    /\ call' = [call EXCEPT !.pc = "running"]
    /\ UNCHANGED <<storeVars, sess, pipelineVars, task, lookup, norm>>

\* one execution of the decorated method
AdapterAttempt ==
    /\ call.pc = "running"
    /\ \E outcome \in AdapterOutcomes :
         call' = IF outcome.class = "Response"
                 THEN [call EXCEPT !.pc = "done", !.result = "returned",
                                   !.attempts = Append(@, outcome),
                                   !.error = NoException]
                 ELSE [call EXCEPT !.pc = "raised",
                                   !.attempts = Append(@, outcome),
                                   !.error = AdapterRaises(outcome)]
    /\ UNCHANGED <<storeVars, sess, pipelineVars, task, lookup, norm>>

\* tenacity after a failed attempt: retry=is_retryable_error is called with
\* the RetryCallState; False re-raises at once, True re-raises when
\* stop_after_attempt(max_attempts) says so and else runs the method again
TenacityDecision ==
    /\ call.pc = "raised"
    /\ call' = IF ~IsRetryableError(PyObject("RetryCallState", 0))
                  \/ Len(call.attempts) >= max_attempts
               THEN [call EXCEPT !.pc = "done", !.result = "raised"]
               ELSE [call EXCEPT !.pc = "running"]
    /\ UNCHANGED <<storeVars, sess, pipelineVars, task, lookup, norm>>

\* the errors of an adapter's HTTP request, and what the adapter makes of them
AdapterErrors ==
    [class : {"TimeoutException", "ReadTimeout", "ConnectError"}, status_code : {0}]
        \cup [class : {"HTTPStatusError"}, status_code : StatusCodes]
        \cup {PyObject("ExternalServiceError", 503), PyObject("ValueError", 0)}

\* is_retryable_error is applied to an error
ClassifyError ==
    /\ call.checked = NoException
    /\ \E e \in AdapterErrors :
         call' = [call EXCEPT !.checked = e, !.verdict = IsRetryableError(e)]
    /\ UNCHANGED <<storeVars, sess, pipelineVars, task, lookup, norm>>

NextRetry ==
    \/ CallAdapter
    \/ AdapterAttempt
    \/ TenacityDecision
    \/ ClassifyError

SpecRetry == Init /\ [][NextRetry]_vars

\* ---------------------------------------------------- find_matching_product
\* scores are hundredths: 70 is 0.7
Ratios == {0, 50, 59, 60, 69, 70, 90}
Similarities == {50, 70, 71, 90}

\* how a product's normalized name stands to the normalized item name: equal,
\* one contained in the other, or neither, with the SequenceMatcher ratio
NameRelations ==
    {[rel |-> "equal", ratio |-> 100], [rel |-> "contains", ratio |-> 80]}
        \cup [rel : {"other"}, ratio : Ratios]

\* a products row: whether it has an embedding, and its name's relation
CatalogProducts == [embedded : BOOLEAN, name : NameRelations]

\* the products table in the order of created_at desc
Catalogs == SeqsUpTo(CatalogProducts, MaxCatalog)

\* text_similarity of the vector pass
TextSimilarity(name) ==
    IF name.rel \in {"equal", "contains"} THEN 95 ELSE name.ratio

\* score of the fuzzy pass
FuzzyScore(name) ==
    IF name.rel = "equal" THEN 95
    ELSE IF name.rel = "contains" THEN 85
    ELSE name.ratio

\* a comparison that lets a later candidate with an equal score win
ReplacesBestOnTie(score, best_score) == score >= best_score

\* if score > best_score: the candidate becomes the best one
ReplacesBest(score, best_score) == score > best_score

RECURSIVE FuzzyBest(_, _, _, _)
\* the loop of the fuzzy pass from candidate i on: the best product so far (0
\* for None) and its score
FuzzyBest(catalog, i, best_product, best_score) ==
    IF i > Len(catalog) THEN [product |-> best_product, score |-> best_score]
    ELSE IF ReplacesBest(FuzzyScore(catalog[i].name), best_score)
    THEN FuzzyBest(catalog, i + 1, i, FuzzyScore(catalog[i].name))
    ELSE FuzzyBest(catalog, i + 1, best_product, best_score)

\* what the fuzzy pass returns: a product (its place in the catalog) or 0 for None
FuzzyResult(catalog) ==
    LET best == FuzzyBest(catalog, 1, 0, 0)
    IN  IF best.product # 0 /\ best.score >= 70 THEN best.product ELSE 0

Embedded(catalog) == {k \in 1..Len(catalog) : catalog[k].embedded}

\* find_matching_product is called for an item name
MatchStart ==
    /\ lookup.pc = "idle"
    /\ \E catalog \in Catalogs :
         lookup' = [lookup EXCEPT !.pc = "embedding", !.catalog = catalog]
    /\ UNCHANGED <<storeVars, sess, pipelineVars, task, call, norm>>

\* an embedding step that gives up (returns None) when the call raises
GenerateEmbeddingNoFallback ==
    /\ lookup.pc = "embedding"
    /\ \/ lookup' = [lookup EXCEPT !.pc = "vector_query", !.embedding = "returned"]
       \/ lookup' = [lookup EXCEPT !.pc = "done", !.embedding = "raised", !.result = 0]
    /\ UNCHANGED <<storeVars, sess, pipelineVars, task, call, norm>>

\* generate_embedding returns, or raises and the except block leads to the
\* fuzzy pass
GenerateEmbedding ==
    /\ lookup.pc = "embedding"
    /\ \/ lookup' = [lookup EXCEPT !.pc = "vector_query", !.embedding = "returned"]
       \/ lookup' = [lookup EXCEPT !.pc = "fuzzy", !.embedding = "raised"]
    /\ UNCHANGED <<storeVars, sess, pipelineVars, task, call, norm>>

\* a decision that trusts the vector similarity alone
VectorDecisionNoTextCheck(lk, row, similarity) ==
    IF row # 0 /\ similarity > 70
    THEN [lk EXCEPT !.pc = "done", !.row = row, !.similarity = similarity,
                    !.vector = "returned", !.result = row]
    ELSE [lk EXCEPT !.pc = "fuzzy", !.row = row, !.similarity = similarity,
                    !.vector = "no_match"]

\* the decision on the nearest row: returned when both thresholds pass; in
\* every other case the log call that follows raises (its format
\* specification is invalid, or row is None) and the except block leads to
\* the fuzzy pass
VectorDecision(lk, row, similarity) ==
    IF row # 0 /\ similarity > 70
    THEN IF TextSimilarity(lk.catalog[row].name) >= 60
         THEN [lk EXCEPT !.pc = "done", !.row = row, !.similarity = similarity,
                         !.vector = "returned", !.result = row]
         ELSE [lk EXCEPT !.pc = "fuzzy", !.row = row, !.similarity = similarity,
                         !.vector = "rejected"]
    ELSE [lk EXCEPT !.pc = "fuzzy", !.row = row, !.similarity = similarity,
                    !.vector = "no_match"]

\* the vector query returns the nearest product that has an embedding, or no
\* row, and the vector pass decides on it
VectorPass ==
    /\ lookup.pc = "vector_query"
    /\ IF Embedded(lookup.catalog) = {}
       THEN lookup' = VectorDecision(lookup, 0, 0)
       ELSE \E row \in Embedded(lookup.catalog), similarity \in Similarities :
                lookup' = VectorDecision(lookup, row, similarity)
    /\ UNCHANGED <<storeVars, sess, pipelineVars, task, call, norm>>

\* the fuzzy pass over every product
FuzzyPass ==
    /\ lookup.pc = "fuzzy"
    /\ lookup' = [lookup EXCEPT !.pc = "done", !.result = FuzzyResult(lookup.catalog)]
    /\ UNCHANGED <<storeVars, sess, pipelineVars, task, call, norm>>

NextMatch ==
    \/ MatchStart
    \/ GenerateEmbedding
    \/ VectorPass
    \/ FuzzyPass

SpecMatch == Init /\ [][NextMatch]_vars

\* ------------------------------------------------------ normalize_thai_text
\* the characters of the inputs: a space, a punctuation mark of the removed
\* class, an upper-case and a lower-case Latin letter, Thai syllable groups
Chars == {" ", ".", "A", "a", "makhuea", "thet", "nom", "sot"}

Texts == SeqsUpTo(Chars, MaxLen)

RECURSIVE JoinSplit(_, _, _)
\* " ".join(text.split()) from position i on: runs of whitespace become one
\* space, leading and trailing whitespace goes; pending says that whitespace
\* was seen after the last kept character
JoinSplit(text, i, pending) ==
    IF i > Len(text) THEN <<>>
    ELSE IF text[i] = " " THEN JoinSplit(text, i + 1, pending)
    ELSE (IF pending THEN <<" ">> ELSE <<>>) \o <<text[i]>>
         \o JoinSplit(text, i + 1, i < Len(text) /\ text[i + 1] = " ")

\* str.lower()
Lower(text) == [i \in 1..Len(text) |-> IF text[i] = "A" THEN "a" ELSE text[i]]

IsKept(c) == c # "."

\* re.sub of the punctuation class with the empty string
RemovePunctuation(text) == SelectSeq(text, IsKept)

\* old occurs in text at position i
OccursAt(text, i, old) ==
    /\ i + Len(old) - 1 <= Len(text)
    /\ SubSeq(text, i, i + Len(old) - 1) = old

RECURSIVE Replace(_, _, _, _)
\* str.replace(old, new) from position i on: occurrences from left to right,
\* not overlapping (old is not empty)
Replace(text, i, old, new) ==
    IF i > Len(text) THEN <<>>
    ELSE IF OccursAt(text, i, old)
    THEN new \o Replace(text, i + Len(old), old, new)
    ELSE <<text[i]>> \o Replace(text, i + 1, old, new)

RECURSIVE ReplaceVariations(_, _, _)
\* the loop over the table's items from entry k on
ReplaceVariations(text, table, k) ==
    IF k > Len(table) THEN text
    ELSE ReplaceVariations(
             Replace(text, 1, Lower(table[k].variation), Lower(table[k].standard)),
             table, k + 1)

\* normalize_thai_text
NormalizeThaiText(text, table) ==
    IF text = <<>> THEN <<>>
    ELSE JoinSplit(
             ReplaceVariations(RemovePunctuation(Lower(JoinSplit(text, 1, FALSE))),
                               table, 1),
             1, FALSE)

\* the variations a caller may add
AddedVariations ==
    [variation : {<<"a">>, <<"sot">>},
     standard : {<<"A">>, <<"a", "a">>, <<"nom">>}]

\* THAI_WORD_VARIATIONS[variation] = standard: a key the dict holds keeps its
\* place, a new key goes to the end
SetItem(table, entry) ==
    IF \E k \in 1..Len(table) : table[k].variation = entry.variation
    THEN [k \in 1..Len(table) |->
             IF table[k].variation = entry.variation THEN entry ELSE table[k]]
    ELSE Append(table, entry)

\* add_word_variation
AddWordVariation ==
    /\ norm.pc = "idle"
    /\ norm.table = BuiltinVariations
    /\ \E entry \in AddedVariations :
         norm' = [norm EXCEPT !.table = SetItem(@, entry)]
    /\ UNCHANGED <<storeVars, sess, pipelineVars, task, call, lookup>>

\* normalize_thai_text is applied to a text
Normalize ==
    /\ norm.pc = "idle"
    /\ \E text \in Texts :
         norm' = [norm EXCEPT !.pc = "once", !.text = text,
                              !.once = NormalizeThaiText(text, norm.table)]
    /\ UNCHANGED <<storeVars, sess, pipelineVars, task, call, lookup>>

\* normalize_thai_text is applied to its own result
NormalizeAgain ==
    /\ norm.pc = "once"
    /\ norm' = [norm EXCEPT !.pc = "twice",
                            !.twice = NormalizeThaiText(norm.once, norm.table)]
    /\ UNCHANGED <<storeVars, sess, pipelineVars, task, call, lookup>>

NextNormalize ==
    \/ AddWordVariation
    \/ Normalize
    \/ NormalizeAgain

SpecNormalize == Init /\ [][NextNormalize]_vars

TypeOK ==
    /\ quantity \in [Products -> Int]
    /\ status \in [Receipts -> ReceiptStatus]
    /\ \A r \in Requests : sess[r].pc \in DbSteps \cup {"idle", "done"}

\* ------------------------------------------------ reconciliation: claims
RECURSIVE SumFor(_, _)
\* the sum of the quantities of the items that reference product p
SumFor(items, p) ==
    IF items = <<>> THEN 0
    ELSE (IF Head(items).product_id = p THEN Head(items).quantity ELSE 0)
         + SumFor(Tail(items), p)

HasMissingProduct(items) == \E i \in 1..Len(items) : items[i].product_id \notin Products

Done(r) == sess[r].pc = "done"

\* the call of request r was made on a receipt that was PendingConfirmation
OnPendingReceipt(r) ==
    /\ sess[r].receipt_id \in Receipts
    /\ sess[r].pre.status[sess[r].receipt_id] = PENDING_CONFIRMATION

TransactionsOf(txs, rid) == {i \in 1..Len(txs) : txs[i].receipt_id = rid}

\* C1: a confirmation whose items reference a product id that does not exist
\* ends in an error, and the product quantities, the Transaction rows and the
\* receipt statuses after the call are those before the call.
C1_MissingProductAbortsBatch ==
    \A r \in Requests :
        (Done(r) /\ OnPendingReceipt(r) /\ HasMissingProduct(sess[r].items))
            => /\ sess[r].result # "ok"
               /\ sess[r].post = sess[r].pre

\* an existing product precedes the missing one, and the call was refused for it
C1_Witness ==
    \E r \in Requests :
        /\ Done(r) /\ OnPendingReceipt(r)
        /\ Len(sess[r].items) = 2
        /\ sess[r].items[1].product_id \in Products
        /\ sess[r].items[2].product_id = MissingProduct
        /\ sess[r].result = "http400_value"

\* C2: whenever a confirmation of a PendingConfirmation receipt returns an
\* error, no product quantity has changed, no Transaction exists for the
\* receipt and the receipt is still PendingConfirmation.
C2_ErrorsNeverPartiallyApply ==
    \A r \in Requests :
        (Done(r) /\ OnPendingReceipt(r) /\ sess[r].result # "ok")
            => /\ sess[r].post.quantity = sess[r].pre.quantity
               /\ TransactionsOf(sess[r].post.transactions, sess[r].receipt_id) = {}
               /\ sess[r].post.status[sess[r].receipt_id] = PENDING_CONFIRMATION

\* C3: a receipt whose status is Confirmed has exactly one Transaction.
C3_ConfirmedHasOneTransaction ==
    \A rc \in Receipts :
        status[rc] = CONFIRMED => Cardinality(TransactionsOf(transactions, rc)) = 1

\* C4: when two confirmations of two different receipts have both succeeded,
\* every product's quantity is its initial quantity plus both increments.
C4_NoLostUpdate ==
    (/\ \A r \in Requests : Done(r) /\ sess[r].result = "ok"
     /\ sess["req1"].receipt_id # sess["req2"].receipt_id)
        => \A p \in Products :
              quantity[p] = InitialQuantity[p] + SumFor(sess["req1"].items, p)
                                               + SumFor(sess["req2"].items, p)

\* C5: a confirmation of a receipt that is Processing, Failed or Confirmed
\* fails with the status error and changes no product quantity, no
\* Transaction row and no receipt status.
C5_StateConflictChangesNothing ==
    \A r \in Requests :
        (/\ Done(r)
         /\ sess[r].receipt_id \in Receipts
         /\ sess[r].pre.status[sess[r].receipt_id] # PENDING_CONFIRMATION)
            => /\ sess[r].result = "http400_status"
               /\ sess[r].post = sess[r].pre

\* a confirmation of a Confirmed receipt, with items that could be applied
C5_Witness ==
    \E r \in Requests :
        /\ Done(r)
        /\ sess[r].receipt_id \in Receipts
        /\ sess[r].pre.status[sess[r].receipt_id] = CONFIRMED
        /\ sess[r].items # <<>>
        /\ ~HasMissingProduct(sess[r].items)
        /\ sess[r].result = "http400_status"

\* C6: a confirmation with an empty items list is rejected with an error and
\* leaves quantities, Transactions and the receipt's status as they were.
C6_EmptyItemsRejected ==
    \A r \in Requests :
        (Done(r) /\ sess[r].items = <<>>)
            => /\ sess[r].result # "ok"
               /\ sess[r].post = sess[r].pre
               /\ (OnPendingReceipt(r) => sess[r].result \in {"http400_value", "http500"})

\* an empty list sent for a PendingConfirmation receipt, refused by create_transaction
C6_Witness ==
    \E r \in Requests :
        /\ Done(r) /\ OnPendingReceipt(r)
        /\ sess[r].items = <<>>
        /\ sess[r].result = "http400_value"
        /\ status[sess[r].receipt_id] = PENDING_CONFIRMATION

\* C7: a successful confirmation was made on a PendingConfirmation receipt
\* with existing products; it leaves every product's quantity at its previous
\* quantity plus the sum of the confirmed quantities that reference it, adds
\* exactly one Transaction with total_items = len(items) and one item per
\* confirmed item with the same product and quantity, and sets the receipt
\* (and no other receipt) to Confirmed.
C7_SuccessfulReconciliation ==
    \A r \in Requests :
        (Done(r) /\ sess[r].result = "ok")
            => LET s == sess[r]
                   n == Len(s.post.transactions)
                   tx == s.post.transactions[n]
               IN  /\ OnPendingReceipt(r)
                   /\ s.items # <<>>
                   /\ ~HasMissingProduct(s.items)
                   /\ \A p \in Products :
                        s.post.quantity[p] = s.pre.quantity[p] + SumFor(s.items, p)
                   /\ n = Len(s.pre.transactions) + 1
                   /\ SubSeq(s.post.transactions, 1, n - 1) = s.pre.transactions
                   /\ tx.receipt_id = s.receipt_id
                   /\ tx.total_items = Len(s.items)
                   /\ Len(tx.items) = Len(s.items)
                   /\ \A i \in 1..Len(s.items) :
                        /\ tx.items[i].product_id = s.items[i].product_id
                        /\ tx.items[i].quantity = s.items[i].quantity
                   /\ s.post.status = [s.pre.status EXCEPT ![s.receipt_id] = CONFIRMED]

\* two confirmed items reference the same product, with different quantities
C7_Witness ==
    \E r \in Requests :
        /\ Done(r) /\ sess[r].result = "ok"
        /\ Len(sess[r].items) = 2
        /\ sess[r].items[1].product_id = sess[r].items[2].product_id
        /\ sess[r].items[1].quantity # sess[r].items[2].quantity

\* the step is the commit of a reconciliation: create_transaction publishes
\* the flushed product UPDATEs together with the Transaction
ReconciliationCommits ==
    \E r \in Requests :
        /\ sess[r].pc = "tx_commit"
        /\ sess'[r].pc = "tx_refresh"
        /\ Len(transactions') = Len(transactions) + 1

\* C20: a step that changes a product's quantity is the commit of a
\* reconciliation transaction.
C20_QuantityOnlyByReconciliation == [][ReconciliationCommits]_quantity

\* ------------------------------------------------------ pipeline: claims
RunDone == run.pc = "done" /\ run.receipt_id \in Receipts

\* the extracted items the matcher returned a product for and the validation
\* adapter then validated
MatchedAndValidated(rn) ==
    {k \in 1..Len(rn.trace) : rn.trace[k].match # None /\ rn.trace[k].valid = "ok"}

RECURSIVE UnmatchedOf(_)
\* the extracted items for which the matcher returned None, in input order
UnmatchedOf(trace) ==
    IF trace = <<>> THEN <<>>
    ELSE (IF Head(trace).match = None THEN <<Head(trace).item>> ELSE <<>>)
         \o UnmatchedOf(Tail(trace))

C9_ZeroItemsKeepsRawText ==
    (RunDone /\ run.answer.kind = "rows" /\ KeptRows(run.answer.rows, 1) = <<>>)
        => /\ status[run.receipt_id] = FAILED
           /\ raw_text[run.receipt_id] = RawContent
           /\ error_message[run.receipt_id].ocr >= 1

\* the extracted items the matcher returned a product for
Matched(rn) == {k \in 1..Len(rn.trace) : rn.trace[k].match # None}

\* C10: validation is only ever attempted for matched items; a finished run
\* in which some item was matched has attempted validation for every matched
\* item, however many items the matcher returned None for; if one of them was
\* validated the receipt is PendingConfirmation (not Failed), and the stored
\* unmatched_items are the extracted items the matcher returned None for.
C10_UnmatchedItemsDoNotBlock ==
    /\ \A k \in 1..Len(run.trace) : run.trace[k].attempted => run.trace[k].match # None
    /\ (RunDone /\ Matched(run) # {})
          => \A k \in Matched(run) : run.trace[k].attempted
    /\ (RunDone /\ MatchedAndValidated(run) # {})
          => /\ status[run.receipt_id] = PENDING_CONFIRMATION
             /\ extracted_data[run.receipt_id].unmatched_items = UnmatchedOf(run.trace)

\* the first item has no match, a later one is matched and validated
C10_Witness ==
    /\ RunDone
    /\ Len(run.trace) >= 2
    /\ run.trace[1].match = None
    /\ MatchedAndValidated(run) # {}
    /\ status[run.receipt_id] = PENDING_CONFIRMATION
    /\ extracted_data[run.receipt_id].unmatched_items # <<>>

\* the run was started on a receipt that had been processed already
DuplicateDelivery ==
    /\ run.pc # "idle"
    /\ run.receipt_id \in Receipts
    /\ run.pre.status \in {PENDING_CONFIRMATION, CONFIRMED}

\* C11: a run delivered for a receipt that is already PendingConfirmation or
\* Confirmed does not raise and leaves the receipt's status (never Processing
\* again), proposal, raw_text and error_message as it found them.
C11_DuplicateDeliveryIsNoOp ==
    DuplicateDelivery
        => /\ status[run.receipt_id] = run.pre.status
           /\ run.result # "raised"
           /\ extracted_data[run.receipt_id] = run.pre.extracted_data
           /\ raw_text[run.receipt_id] = run.pre.raw_text
           /\ error_message[run.receipt_id] = run.pre.error_message

\* Celery is done with the request: nothing will touch the receipt again
TaskOver == task.state \in {"SUCCESS", "FAILURE"}

\* C12: a request whose task body has set the receipt to Processing does not
\* end with the receipt still Processing: when Celery is done with the
\* request, the receipt is PendingConfirmation or Failed.
C12_NeverStuckInProcessing ==
    TaskOver => status[task.receipt_id] \in {PENDING_CONFIRMATION, FAILED}

\* the progress sink has received the event with this percentage
Reported(pct) == \E i \in 1..Len(progress) : progress[i] = pct

\* the stage is still at work on the run
ExtractionPending == run.pc = "extracting"
MatchingPending == run.pc = "matching" /\ run.idx <= Len(run.extracted_items)
ValidationPending == run.pc = "validating" /\ run.idx <= Len(run.matched_items)

\* C13: 33% is reported only once extraction has returned, 66% only once
\* every extracted item has been through the matcher, 100% only once the
\* validation of the matched items has finished; a run that failed because
\* nothing was validated has not reported 100%; the percentages reported in
\* a run never decrease.
C13_ProgressAfterStage ==
    /\ Reported(33) => ~ExtractionPending
    /\ Reported(66) => ~ExtractionPending /\ ~MatchingPending
    /\ Reported(100) => ~ExtractionPending /\ ~MatchingPending /\ ~ValidationPending
    /\ (RunDone /\ run.result = "raised" /\ run.exc.text = "no_items_validated")
          => ~Reported(100)
    /\ \A i, j \in 1..Len(progress) : i <= j => progress[i] <= progress[j]

\* the extracted items that were validated, in the order of the proposal
ValidatedOf(rn) ==
    SelectSeq([k \in 1..Len(rn.trace) |-> k],
              LAMBDA k : rn.trace[k].valid = "ok")

\* every item of the list names the product the matcher returned for the
\* extracted item it was made from
KeepsMatchedProduct(rn, items) ==
    /\ Len(items) <= Len(ValidatedOf(rn))
    /\ \A i \in 1..Len(items) :
         LET k == ValidatedOf(rn)[i]
         IN  /\ items[i].original_text = rn.trace[k].item
             /\ items[i].product_id = rn.trace[k].match

\* C19: every ValidatedItem, and every item of a stored proposal, carries the
\* product_id of the product the matcher returned for its extracted item,
\* whatever product_id the LLM answered.
C19_ValidationKeepsProduct ==
    /\ KeepsMatchedProduct(run, run.validated_items)
    /\ (RunDone /\ run.result = "returned")
          => /\ extracted_data[run.receipt_id].items = run.validated_items
             /\ Len(run.validated_items) = Len(ValidatedOf(run))

\* a stored proposal with an item for which the LLM answered another product
C19_Witness ==
    /\ RunDone /\ run.result = "returned"
    /\ status[run.receipt_id] = PENDING_CONFIRMATION
    /\ \E i \in 1..Len(extracted_data[run.receipt_id].items) :
         LET k == ValidatedOf(run)[i]
         IN  /\ run.trace[k].llm_product_id \in Products
             /\ run.trace[k].llm_product_id # run.trace[k].match
             /\ extracted_data[run.receipt_id].items[i].product_id = run.trace[k].match

\* --------------------------------------------------------- retry: claims
\* a transport error, a timeout, or an HTTP status of 429, 500, 502, 503, 504
Transient(e) ==
    \/ e.class \in {"TimeoutException", "ReadTimeout", "ConnectError"}
    \/ e.class = "HTTPStatusError" /\ e.status_code \in {429, 500, 502, 503, 504}

LastAttempt == call.attempts[Len(call.attempts)]

\* C14: an adapter call reaches its caller with an error for a transient
\* failure only after max_attempts attempts.
C14_TransientErrorsRetried ==
    (call.pc = "done" /\ call.result = "raised" /\ Transient(LastAttempt))
        => Len(call.attempts) = max_attempts

\* C15: the retry predicate says "retry" only for a transient error, and an
\* attempt is repeated only after a transient failure.
C15_RetryOnlyTransient ==
    /\ (call.checked # NoException /\ call.verdict) => Transient(call.checked)
    /\ \A i \in 1..(Len(call.attempts) - 1) : Transient(call.attempts[i])

\* ------------------------------------------------------- matcher: claims
\* the fuzzy scores of the catalog's names
FuzzyScores(catalog) == {FuzzyScore(catalog[k].name) : k \in 1..Len(catalog)}

\* r is the best candidate of the fuzzy pass: no product scores higher and
\* none before it scores as high
BestFuzzyCandidate(catalog, r) ==
    /\ r \in 1..Len(catalog)
    /\ \A k \in 1..Len(catalog) : FuzzyScore(catalog[k].name) <= FuzzyScore(catalog[r].name)
    /\ \A k \in 1..(r - 1) : FuzzyScore(catalog[k].name) < FuzzyScore(catalog[r].name)

\* what the fuzzy pass alone decides, stated without its loop
FuzzyDecides(catalog, r) ==
    IF \E sc \in FuzzyScores(catalog) : sc >= 70
    THEN BestFuzzyCandidate(catalog, r)
    ELSE r = 0

RejectedCandidate ==
    /\ lookup.row # 0
    /\ lookup.similarity >= 70
    /\ TextSimilarity(lookup.catalog[lookup.row].name) < 60

\* C17: a nearest candidate whose vector similarity passes 0.7 and whose text
\* similarity is below 0.6 is not returned by the vector pass, and the call
\* ends with what the fuzzy pass alone decides.
C17_LowTextSimilarityRejected ==
    RejectedCandidate
        => /\ lookup.vector # "returned"
           /\ lookup.pc \in {"fuzzy", "done"}
           /\ lookup.pc = "done" => FuzzyDecides(lookup.catalog, lookup.result)

\* the rejected candidate had vector similarity 0.9, and the fuzzy pass
\* returned another product
C17_Witness ==
    /\ lookup.pc = "done"
    /\ RejectedCandidate
    /\ lookup.similarity = 90
    /\ lookup.result # 0

\* C25: the fuzzy pass and the text check of the vector pass give every
\* candidate the same score, 0.95 whenever one normalized name contains the
\* other (equal or not) and the sequence ratio otherwise.
C25_SameTextScoreInBothPasses ==
    lookup.pc # "idle"
        => \A k \in 1..Len(lookup.catalog) :
              LET name == lookup.catalog[k].name
              IN  /\ FuzzyScore(name) = TextSimilarity(name)
                  /\ FuzzyScore(name) = IF name.rel \in {"equal", "contains"}
                                        THEN 95 ELSE name.ratio

\* the fuzzy pass has decided the call
FuzzyPassDecided == lookup.pc = "done" /\ lookup.vector # "returned"

\* the highest score of the fuzzy pass over the catalog (0 for an empty one)
MaxFuzzyScore(catalog) ==
    IF catalog = <<>> THEN 0
    ELSE CHOOSE m \in FuzzyScores(catalog) : \A sc \in FuzzyScores(catalog) : sc <= m

C18_NormalizeIdempotent ==
    /\ norm.pc = "twice" => norm.twice = norm.once
    /\ (norm.pc # "idle" /\ norm.text = <<>>) => norm.once = <<>>

\* the request carries an item whose quantity is zero or negative
HasNonPositiveQuantity(items) == \E i \in 1..Len(items) : items[i].quantity <= 0

\* C27: no product's quantity after a confirmation is lower than before it,
\* and a confirmation with an item of zero or negative quantity is rejected
\* with quantities, Transactions and statuses as they were.
C27_ReconciliationOnlyIncreases ==
    \A r \in Requests :
        Done(r)
            => /\ \A p \in Products : sess[r].post.quantity[p] >= sess[r].pre.quantity[p]
               /\ HasNonPositiveQuantity(sess[r].items)
                     => /\ sess[r].result # "ok"
                        /\ sess[r].post = sess[r].pre

\* a PendingConfirmation receipt, an existing product with a valid quantity
\* first, then a negative quantity: refused before any product is touched
C27_Witness ==
    \E r \in Requests :
        /\ Done(r) /\ OnPendingReceipt(r)
        /\ Len(sess[r].items) = 2
        /\ sess[r].items[1] = [product_id |-> "P1", quantity |-> 1]
        /\ sess[r].items[2] = [product_id |-> "P1", quantity |-> -1]
        /\ sess[r].result = "http400_value"
        /\ sess[r].low_stock_products = <<>>

\* ------------------------------------------- confirmation: atomicity claims
\* C21: in no committed state does a receipt that is still PendingConfirmation
\* have a Transaction (the Transaction and the quantity increments become
\* visible only together with the Confirmed status).
C21_ConfirmedInSameUnit ==
    \A rc \in Receipts :
        TransactionsOf(transactions, rc) # {} => status[rc] # PENDING_CONFIRMATION

\* update_inventory of request r has returned its list to confirm_receipt
UpdateInventoryReturned(r) ==
    /\ sess[r].pc = "create_transaction"
    /\ sess[r].items # <<>>

\* the products a confirmed item references whose final quantity is below
\* their reorder point
LowStockAtEnd(s) == {p \in Dirty(s) : s.loaded[p] < ReorderPoint[p]}

\* C22: the low_stock_products that update_inventory returns holds a product
\* exactly when a confirmed item references it and its final quantity is
\* below its reorder point, each such product once, with its final quantity.
C22_LowStockFromFinalQuantities ==
    \A r \in Requests :
        UpdateInventoryReturned(r) =>
            LET s == sess[r]
                low == s.low_stock_products
            IN  /\ {low[i].product_id : i \in 1..Len(low)} = LowStockAtEnd(s)
                /\ Len(low) = Cardinality(LowStockAtEnd(s))
                /\ \A i \in 1..Len(low) : low[i].quantity = s.loaded[low[i].product_id]

\* ------------------------------------------------ pipeline: further claims
\* the matched items whose validation raised
FailedValidation(rn) == {k \in 1..Len(rn.trace) : rn.trace[k].valid = "failed"}

RECURSIVE ValidatedItemsOf(_)
\* the extracted items whose validation succeeded, in input order
ValidatedItemsOf(trace) ==
    IF trace = <<>> THEN <<>>
    ELSE (IF Head(trace).valid = "ok" THEN <<Head(trace).item>> ELSE <<>>)
         \o ValidatedItemsOf(Tail(trace))

\* the items of the stored proposal, named by the extracted item they come from
ProposalItems(rid) ==
    [i \in 1..Len(extracted_data[rid].items) |-> extracted_data[rid].items[i].original_text]

\* C23: a finished run in which the validation of a matched item failed has
\* still attempted the validation of every other matched item; it ends Failed
\* exactly when every matched item failed, and otherwise its proposal holds
\* the validated items and not the failed ones.
C23_ValidationFailureSkipsItem ==
    (RunDone /\ FailedValidation(run) # {})
        => /\ \A k \in Matched(run) : run.trace[k].attempted
           /\ status[run.receipt_id] = FAILED <=> FailedValidation(run) = Matched(run)
           /\ status[run.receipt_id] # FAILED
                 => /\ status[run.receipt_id] = PENDING_CONFIRMATION
                    /\ ProposalItems(run.receipt_id) = ValidatedItemsOf(run.trace)

\* the first matched item failed validation, a later one was validated and
\* is the only item of the proposal
C23_Witness ==
    /\ RunDone
    /\ Len(run.trace) >= 2
    /\ run.trace[1].valid = "failed"
    /\ run.trace[2].valid = "ok"
    /\ status[run.receipt_id] = PENDING_CONFIRMATION
    /\ Len(extracted_data[run.receipt_id].items) = 1

\* the execution got the raw text from the extraction adapter and went on to
\* the matching stage
MatchingStarted == run.raw_ocr_content # None /\ Reported(66)

\* the execution has ended with the receipt Failed: the body has raised, or
\* the request has failed for good
EndedFailed ==
    /\ \/ run.pc = "done" /\ run.result = "raised"
       \/ task.state = "FAILURE" /\ run.result = "raised"
    /\ run.receipt_id \in Receipts
    /\ status[run.receipt_id] = FAILED

StaysConfirmed ==
    \A rc \in Receipts : status[rc] = CONFIRMED => status'[rc] = CONFIRMED

\* C28: no step changes the status of a receipt that is Confirmed.
C28_ConfirmedIsAbsorbing == [][StaysConfirmed]_status

\* the run went through the validation loop
ValidationOver == RunDone /\ Reported(100)

RECURSIVE ValidatedBy(_, _)
\* the extracted items that implementation impl validates when the adapter,
\* for each matched item, answers what it answered in this run
ValidatedBy(impl, trace) ==
    IF trace = <<>> THEN <<>>
    ELSE LET e == Head(trace)
             llm == [ok |-> e.adapter = "returned", quantity |-> 0, product_id |-> None]
         IN  (IF e.match # None /\ ValidateCall(impl, llm).ok THEN <<e.item>> ELSE <<>>)
             \o ValidatedBy(impl, Tail(trace))

\* C29: a finished run leaves the receipt as either implementation leaves it
\* for the same extraction result, matcher results and adapter outcomes:
\* PendingConfirmation with the items that implementation validates, or
\* Failed when it validates none; the stored raw_text and unmatched_items are
\* those of the run's inputs.
C29_ImplementationsEquivalent ==
    ValidationOver
        => /\ raw_text[run.receipt_id] = run.raw_ocr_content
           /\ \A impl \in Implementations :
                 IF ValidatedBy(impl, run.trace) = <<>>
                 THEN status[run.receipt_id] = FAILED
                 ELSE /\ status[run.receipt_id] = PENDING_CONFIRMATION
                      /\ ProposalItems(run.receipt_id) = ValidatedBy(impl, run.trace)
                      /\ extracted_data[run.receipt_id].unmatched_items
                            = UnmatchedOf(run.trace)

\* ------------------------------------------------------ Celery task: claims
\* the status changes a pipeline may make
PipelineTransitions ==
    {<<PROCESSING, PENDING_CONFIRMATION>>, <<PROCESSING, FAILED>>, <<FAILED, PROCESSING>>}

\* the step starts an execution of the task body that is a retry
RetryStarts == task.state = "queued" /\ task'.state = "started" /\ task.retries > 0

\* the step ends the request
RequestEnds == task.state # task'.state /\ task'.state \in {"SUCCESS", "FAILURE"}

\* what one step of a dispatched request may do to the receipt
DispatchStep ==
    /\ task'.retries <= max_retries
    /\ \A rc \in Receipts :
          status'[rc] # status[rc] => <<status[rc], status'[rc]>> \in PipelineTransitions
    /\ RetryStarts
          => /\ status[task.receipt_id] = FAILED
             /\ status'[task.receipt_id] = PROCESSING
    /\ RequestEnds
          => status'[task.receipt_id] \in {PENDING_CONFIRMATION, FAILED}

\* C30: a dispatched request runs the task body at most 1 + max_retries
\* times; every retry takes the receipt from Failed to Processing; when the
\* request ends the receipt is PendingConfirmation or Failed; and the only
\* status changes are Processing -> PendingConfirmation, Processing -> Failed
\* and Failed -> Processing.
C30_RetriesAndStatusChanges == [][DispatchStep]_<<status, task>>

====
